---- MODULE Spec2Model ----
(***************************************************************************)
(* Shoob.gg card scraper: the command-line entry point main.py (argument   *)
(* handling, the summary branch, the confirmation prompt, the call of      *)
(* scrape_all_pages, the exception handlers and the process exit status),  *)
(* together with the Page Scraping Orchestrator and the Incremental Store  *)
(* of the scraper module, which main.py imports.                           *)
(***************************************************************************)
EXTENDS Integers, Sequences, FiniteSets, TLC

(* ------------------------------ bounds --------------------------------- *)
\* Highest page number that holds data on the modelled site.
MaxPage == 3
\* Number of program runs (process starts) over one persisted store.
MaxRuns == 2

(* --------------------------- program constants ------------------------- *)
\* argparse leaves an option that was not given as None; None and 0 are both
\* falsy in `if start_page:` / `if end_page:`, and are modelled as 0.
None == 0
\* print_summary shows summary_data['sample_cards'][:3].
SampleShown == 3

VARIABLES
    store,        \* Incremental Store: page number -> [done, cards] persisted
    config,       \* scraper.config: start_page, end_page, skip_existing
    site,         \* what the Page Fetcher finds: page number -> number of cards
    runs,         \* number of runs started so far
    args,         \* parse_arguments() of the current run
    pc,           \* position of the current run in main / __main__
    session,      \* browser-automation session: "none", "open", "released"
    page,         \* orchestrator: page number about to be visited
    pending,      \* orchestrator: cards fetched for `page`, not yet appended
    stats,        \* orchestrator: Run Statistics
    trail,        \* history of the run: pages skipped / fetched / appended, ...
    response,     \* line typed at the confirmation prompt, until scraping starts
    out,          \* console messages printed by the run
    shown,        \* what print_summary printed last
    exitStatus,   \* "running", "0", "1" or "killed"
    store0        \* the store as it was when the run started

vars == <<store, config, site, runs, args, pc, session, page, pending, stats,
          trail, response, out, shown, exitStatus, store0>>

(* ------------------------------ helpers -------------------------------- *)
Min(a, b) == IF a <= b THEN a ELSE b

RECURSIVE SortedSeq(_)
\* sorted(pages): the ascending list of a set of page numbers.
SortedSeq(S) ==
    IF S = {} THEN <<>>
    ELSE LET m == CHOOSE x \in S : \A y \in S : x <= y
         IN  <<m>> \o SortedSeq(S \ {m})

(* ------------------------- Incremental Store --------------------------- *)
\* A card is identified by the page it was extracted from and its position.
Batch(n, k) == [i \in 1..k |-> <<n, i>>]

\* The persisted collection is kept per page: whether the page is recorded as
\* complete, and the cards appended for it.
EmptyStore == [n \in 1..MaxPage |-> [done |-> FALSE, cards |-> <<>>]]

has_page(st, n) == n \in DOMAIN st /\ st[n].done

\* A store that loses the last card of the batch it is given.
append_page_lossy(st, n, cards) ==
    [st EXCEPT ![n] = [done |-> TRUE,
                       cards |-> @.cards \o SubSeq(cards, 1, Len(cards) - 1)]]

\* append_page(n, cards): adds the cards to the collection, marks n complete.
append_page(st, n, cards) ==
    [st EXCEPT ![n] = [done |-> TRUE, cards |-> @.cards \o cards]]

RecordedPages(st) == {n \in DOMAIN st : st[n].done}

RECURSIVE CardsFrom(_, _)
CardsFrom(st, n) ==
    IF n \notin DOMAIN st THEN <<>> ELSE st[n].cards \o CardsFrom(st, n + 1)

AllCards(st) == CardsFrom(st, 1)

\* get_scraped_data_summary(): a read-only view of the persisted state.
get_scraped_data_summary(st) ==
    [total_cards   |-> Len(AllCards(st)),
     scraped_pages |-> RecordedPages(st),
     sample_cards  |-> AllCards(st)]

(* ---------------------------- print_summary ---------------------------- *)
NoSummary == [total |-> -1, pages_line |-> <<>>, has_pages_line |-> FALSE,
              samples |-> <<>>]

print_summary(s) ==
    [total          |-> s.total_cards,
     has_pages_line |-> s.scraped_pages # {},
     pages_line     |-> SortedSeq(s.scraped_pages),
     samples        |-> SubSeq(s.sample_cards, 1,
                               Min(SampleShown, Len(s.sample_cards)))]

(* ----------------------- the confirmation prompt ----------------------- *)
Whitespace == {" "}

RECURSIVE LStrip(_)
LStrip(s) ==
    IF s # <<>> /\ Head(s) \in Whitespace THEN LStrip(Tail(s)) ELSE s

RECURSIVE RStrip(_)
RStrip(s) ==
    IF s # <<>> /\ s[Len(s)] \in Whitespace
    THEN RStrip(SubSeq(s, 1, Len(s) - 1)) ELSE s

\* str.strip()
Strip(s) == RStrip(LStrip(s))

LowerChar(c) ==
    CASE c = "Y" -> "y" [] c = "E" -> "e" [] c = "S" -> "s"
      [] c = "N" -> "n" [] c = "O" -> "o" [] OTHER -> c

\* str.lower()
Lower(s) == [i \in 1..Len(s) |-> LowerChar(s[i])]

\* A prompt that takes any answer starting with y.
AcceptsPrefix(r) ==
    Lower(Strip(r)) # <<>> /\ Head(Lower(Strip(r))) = "y"

\* response not in ['y', 'yes'] is False
Accepts(r) == Lower(Strip(r)) \in {<<"y">>, <<"y", "e", "s">>}

\* Lines the user may type at the prompt.
Responses ==
    { <<"y">>, <<" ", "Y", "E", "S", " ">>, <<"y", "e", "s">>,
      <<>>, <<"n">>, <<"y", " ", "e", "s">>, <<"y", "e", "s", "s">> }
NoResponse == <<"-">>

(* ------------------------------- inputs -------------------------------- *)
\* Page counts of the modelled site: 5, 0 and 4 cards on pages 1, 2 and 3,
\* nothing on any later page.
ExampleSite ==
    [n \in 1..MaxPage |-> IF n = 1 THEN 5 ELSE IF n = 3 THEN 4 ELSE 0]
Sites == {ExampleSite}

CardsOn(n) == IF n \in DOMAIN site THEN site[n] ELSE 0

\* --start, --end, --resume, --summary.  --verbose only raises the logging
\* level and --config is not read; neither is part of the state.
Args ==
    [start : {None} \cup 1..MaxPage, end : {None} \cup 1..MaxPage,
     resume : BOOLEAN, summary : BOOLEAN]

Configs ==
    [start_page : {1}, end_page : {None, MaxPage}, skip_existing : BOOLEAN]

NoArgs == [start |-> None, end |-> None, resume |-> FALSE, summary |-> FALSE]
NoStats == [pages_scraped |-> 0, pages_skipped |-> 0, cards_extracted |-> 0,
            errors |-> 0]
\* orch is the orchestrator's state (Idle, Running, Completed, Cancelled,
\* Failed); cancel tells where a keyboard interrupt was caught, raised which
\* exception escaped into main's handlers.
NoTrail == [skipped |-> {}, fetched |-> {}, appended |-> <<>>,
            end_of_data |-> FALSE, orch |-> "Idle", cancel |-> "none",
            raised |-> "none"]

Init ==
    /\ store = EmptyStore
    /\ config \in Configs
    /\ site \in Sites
    /\ runs = 0
    /\ args = NoArgs
    /\ pc = "idle"
    /\ session = "none"
    /\ page = 0
    /\ pending = <<>>
    /\ stats = NoStats
    /\ trail = NoTrail
    /\ response = NoResponse
    /\ out = {}
    /\ shown = NoSummary
    /\ exitStatus = "running"
    /\ store0 = EmptyStore

(* ------------------------ argument resolution -------------------------- *)
\* A summary branch that is placed after the resume handling.
SummaryRequestedUnlessResume(a) == a.summary /\ ~a.resume

\* if args.summary:
SummaryRequested(a) == a.summary

\* start_page = args.start, falling back to scraper.config['start_page']
StartPage(a, c) == IF a.start # None THEN a.start ELSE c.start_page

\* An end page taken from the configuration alone.
EndPageConfigOnly(a, c) == c.end_page

\* end_page = args.end, falling back to scraper.config['end_page']; None
\* means auto-detect ("will scrape until no more cards").
EndPage(a, c) == IF a.end # None THEN a.end ELSE c.end_page

PlanLine(a, c) ==
    IF a.end # None THEN "end_explicit"
    ELSE IF c.end_page # None THEN "end_from_config" ELSE "end_auto_detect"

\* scrape_all_pages(start_page, end_page): the call carries no resume
\* argument, so the orchestrator's resume input is the scraper's own setting.
OrchestratorResume(a, c) == c.skip_existing

\* A handler that only reports the interruption.
InterruptNoticeShort == {"interrupted"}

\* The three lines printed by main's KeyboardInterrupt handler.
InterruptNotice == {"interrupted", "pages_saved", "use_resume"}

\* if not args.resume: (the confirmation prompt is shown)
AsksConfirmation(a) == ~a.resume

(* --------------------------- process exit ------------------------------ *)

\* main() returned: asyncio.run returns and the script ends with status 0.
ReturnFromMain ==
    /\ pc' = "exited"
    /\ exitStatus' = "0"

(* ------------------------------- main ---------------------------------- *)
\* A new process is started on the persisted store: parse_arguments(),
\* print_banner(), entry of the try block.
StartRun(a) ==
    /\ pc = "idle"
    /\ runs < MaxRuns
    /\ runs' = runs + 1
    /\ args' = a
    /\ pc' = "init"
    /\ session' = "none"
    /\ page' = 0
    /\ pending' = <<>>
    /\ stats' = NoStats
    /\ trail' = NoTrail
    /\ response' = NoResponse
    /\ out' = {"banner"}
    /\ shown' = NoSummary
    /\ exitStatus' = "running"
    /\ store0' = store
    /\ UNCHANGED <<store, config, site>>

\* scraper = ShoobCardScraper()
InitScraper ==
    /\ pc = "init"
    /\ session' = "open"
    /\ out' = out \cup {"initializing"}
    /\ pc' = IF SummaryRequested(args) THEN "summary" ELSE "plan"
    /\ UNCHANGED <<store, config, site, runs, args, page, pending, stats,
                   trail, response, shown, exitStatus, store0>>

\* ShoobCardScraper() raises: FileNotFoundError ("fnf") or another Exception.
InitScraperFails(kind) ==
    /\ pc = "init"
    /\ out' = out \cup {"initializing"}
    /\ pc' = IF kind = "fnf" THEN "except_fnf" ELSE "except_exc"
    /\ trail' = [trail EXCEPT !.raised = kind]
    /\ UNCHANGED <<store, config, site, runs, args, session, page, pending,
                   stats, response, shown, exitStatus, store0>>

\* if args.summary: print the summary and return.
ShowSummary ==
    /\ pc = "summary"
    /\ out' = out \cup {"generating_summary", "summary"}
    /\ shown' = print_summary(get_scraped_data_summary(store))
    /\ ReturnFromMain
    /\ UNCHANGED <<store, config, site, runs, args, session, page, pending,
                   stats, trail, response, store0>>

\* get_scraped_data_summary() raises on an inaccessible store.
ShowSummaryFails(kind) ==
    /\ pc = "summary"
    /\ out' = out \cup {"generating_summary"}
    /\ pc' = IF kind = "fnf" THEN "except_fnf" ELSE "except_exc"
    /\ trail' = [trail EXCEPT !.raised = kind]
    /\ UNCHANGED <<store, config, site, runs, args, session, page, pending,
                   stats, response, shown, exitStatus, store0>>

\* Resume notice and the scraping plan.
ShowPlan ==
    /\ pc = "plan"
    /\ out' = out \cup {"plan", PlanLine(args, config)}
                  \cup (IF args.resume THEN {"resume_mode"} ELSE {})
    /\ pc' = IF AsksConfirmation(args) THEN "confirm" ELSE "start"
    /\ UNCHANGED <<store, config, site, runs, args, session, page, pending,
                   stats, trail, response, shown, exitStatus, store0>>

\* response = input(...).strip().lower(); anything but y / yes returns.
Confirm(r) ==
    /\ pc = "confirm"
    /\ response' = r
    /\ IF Accepts(r)
       THEN /\ pc' = "start"
            /\ out' = out \cup {"prompt"}
            /\ UNCHANGED exitStatus
       ELSE /\ out' = out \cup {"prompt", "cancelled_by_user"}
            /\ ReturnFromMain
    /\ UNCHANGED <<store, config, site, runs, args, session, page, pending,
                   stats, trail, shown, store0>>

\* KeyboardInterrupt raised by input(): caught at the prompt, main returns.
ConfirmInterrupted ==
    /\ pc = "confirm"
    /\ out' = out \cup {"prompt", "cancelled_by_user"}
    /\ trail' = [trail EXCEPT !.cancel = "prompt"]
    /\ ReturnFromMain
    /\ UNCHANGED <<store, config, site, runs, args, session, page, pending,
                   stats, response, shown, store0>>

\* input() raises EOFError (no terminal): an Exception of the outer try.
ConfirmFails ==
    /\ pc = "confirm"
    /\ out' = out \cup {"prompt"}
    /\ pc' = "except_exc"
    /\ trail' = [trail EXCEPT !.raised = "exc"]
    /\ UNCHANGED <<store, config, site, runs, args, session, page, pending,
                   stats, response, shown, exitStatus, store0>>

\* stats = await scraper.scrape_all_pages(start_page, end_page)
StartScraping ==
    /\ pc = "start"
    /\ out' = out \cup {"starting"}
    /\ page' = StartPage(args, config)
    /\ pc' = "loop"
    /\ response' = NoResponse
    /\ trail' = [trail EXCEPT !.orch = "Running"]
    /\ UNCHANGED <<store, config, site, runs, args, session, pending, stats,
                   shown, exitStatus, store0>>

\* Final results, and the data summary when cards were extracted.
ShowResults ==
    /\ pc = "results"
    /\ out' = out \cup {"completed"}
                  \cup (IF stats.cards_extracted > 0 THEN {"summary"} ELSE {})
    /\ shown' = IF stats.cards_extracted > 0
                THEN print_summary(get_scraped_data_summary(store))
                ELSE shown
    /\ ReturnFromMain
    /\ UNCHANGED <<store, config, site, runs, args, session, page, pending,
                   stats, trail, response, store0>>

(* ----------------- scrape_all_pages: the orchestrator ------------------- *)
InRange(n) ==
    EndPage(args, config) = None \/ n <= EndPage(args, config)

Skips(n) == OrchestratorResume(args, config) /\ has_page(store, n)

\* A page counter that ignores pages without cards.
CountPageIfCards(st, cards) ==
    [st EXCEPT !.pages_scraped = IF cards = <<>> THEN @ ELSE @ + 1,
               !.cards_extracted = @ + Len(cards)]

\* A persisted page is counted in pages_scraped and cards_extracted.
CountPage(st, cards) ==
    [st EXCEPT !.pages_scraped = @ + 1,
               !.cards_extracted = @ + Len(cards)]

\* scrape_all_pages returns or raises: its own cleanup closes the session.
LeaveOrchestrator(to) ==
    /\ pc' = to
    /\ session' = "released"

\* The requested range is exhausted: Completed.
RangeDone ==
    /\ pc = "loop"
    /\ ~InRange(page)
    /\ trail' = [trail EXCEPT !.orch = "Completed"]
    /\ LeaveOrchestrator("results")
    /\ UNCHANGED <<store, config, site, runs, args, page, pending, stats,
                   response, out, shown, exitStatus, store0>>

\* Resume set and has_page(n): count the page as skipped, go to n+1.
SkipPage ==
    /\ pc = "loop"
    /\ InRange(page)
    /\ Skips(page)
    /\ stats' = [stats EXCEPT !.pages_skipped = @ + 1]
    /\ trail' = [trail EXCEPT !.skipped = @ \cup {page}]
    /\ page' = page + 1
    /\ UNCHANGED <<store, config, site, runs, args, pc, session, pending,
                   response, out, shown, exitStatus, store0>>

\* Page Fetcher(n) answers.  Zero cards without an end page is end-of-data;
\* otherwise the cards (possibly none) are handed to the store.
FetchPage ==
    /\ pc = "loop"
    /\ InRange(page)
    /\ ~Skips(page)
    /\ IF CardsOn(page) = 0 /\ EndPage(args, config) = None
       THEN /\ trail' = [trail EXCEPT !.fetched = @ \cup {page},
                                      !.end_of_data = TRUE,
                                      !.orch = "Completed"]
            /\ LeaveOrchestrator("results")
            /\ UNCHANGED pending
       ELSE /\ trail' = [trail EXCEPT !.fetched = @ \cup {page}]
            /\ pending' = Batch(page, CardsOn(page))
            /\ pc' = "fetched"
            /\ UNCHANGED session
    /\ UNCHANGED <<store, config, site, runs, args, page, stats, response,
                   out, shown, exitStatus, store0>>

\* Page Fetcher(n) signals a transient error: counted, the run goes on.
FetchTransientError ==
    /\ pc = "loop"
    /\ InRange(page)
    /\ ~Skips(page)
    /\ page <= MaxPage
    /\ stats' = [stats EXCEPT !.errors = @ + 1]
    /\ trail' = [trail EXCEPT !.fetched = @ \cup {page}]
    /\ page' = page + 1
    /\ UNCHANGED <<store, config, site, runs, args, pc, session, pending,
                   response, out, shown, exitStatus, store0>>

\* Page Fetcher(n) signals a fatal error: Failed, the exception escapes.
FetchFatalError(kind) ==
    /\ pc = "loop"
    /\ InRange(page)
    /\ ~Skips(page)
    /\ trail' = [trail EXCEPT !.fetched = @ \cup {page}, !.orch = "Failed",
                               !.raised = kind]
    /\ LeaveOrchestrator(IF kind = "fnf" THEN "except_fnf" ELSE "except_exc")
    /\ UNCHANGED <<store, config, site, runs, args, page, pending, stats,
                   response, out, shown, exitStatus, store0>>

\* append_page(n, cards) returns: the page is persisted and counted.
AppendPage ==
    /\ pc = "fetched"
    /\ store' = append_page(store, page, pending)
    /\ stats' = CountPage(stats, pending)
    /\ trail' = [trail EXCEPT
                   !.appended = Append(@, [page |-> page, cards |-> pending])]
    /\ pending' = <<>>
    /\ page' = page + 1
    /\ pc' = "loop"
    /\ UNCHANGED <<config, site, runs, args, session, response, out, shown,
                   exitStatus, store0>>

\* append_page(n, cards) signals a Storage Error: fatal for the run.
AppendFails(kind) ==
    /\ pc = "fetched"
    /\ pending' = <<>>
    /\ trail' = [trail EXCEPT !.orch = "Failed", !.raised = kind]
    /\ LeaveOrchestrator(IF kind = "fnf" THEN "except_fnf" ELSE "except_exc")
    /\ UNCHANGED <<store, config, site, runs, args, page, stats, response,
                   out, shown, exitStatus, store0>>

(* ------------------------ interrupts and handlers ---------------------- *)
\* Positions inside main's try block, the confirmation prompt apart.
Interruptible == {"init", "summary", "plan", "start", "loop", "fetched",
                  "results"}

\* Positions at which main is suspended in `await scraper.scrape_all_pages`.
Awaiting == {"loop", "fetched"}

\* Positions inside main's except clauses.
Handlers == {"except_ki", "except_fnf", "except_exc"}

\* Ctrl-C.  "main": KeyboardInterrupt is raised in the body of main's try and
\* caught by main.  "top": it arrives while main is suspended in the await
\* (the main task is cancelled) or inside one of main's except clauses, and
\* asyncio.run raises KeyboardInterrupt into __main__.
Interrupt(delivery) ==
    /\ delivery = "main" => pc \in Interruptible
    /\ delivery = "top" => pc \in Awaiting \cup Handlers
    /\ pc' = IF delivery = "main" THEN "except_ki" ELSE "top_ki"
    /\ pending' = <<>>
    /\ trail' = [trail EXCEPT
                   !.cancel = delivery,
                   !.orch = IF pc \in Awaiting THEN "Cancelled" ELSE @]
    /\ UNCHANGED <<store, config, site, runs, args, session, page, stats,
                   response, out, shown, exitStatus, store0>>

\* except KeyboardInterrupt: notice, then `await scraper._cleanup_browser()`
\* when scraper is bound; a failing cleanup is swallowed.
ExceptKeyboardInterrupt(cleanup_ok) ==
    /\ pc = "except_ki"
    /\ out' = out \cup InterruptNotice
    /\ session' = IF session = "open" /\ cleanup_ok THEN "released"
                  ELSE session
    /\ ReturnFromMain
    /\ UNCHANGED <<store, config, site, runs, args, page, pending, stats,
                   trail, response, shown, store0>>

\* except FileNotFoundError: reported, not re-raised; main returns.
ExceptFileNotFound ==
    /\ pc = "except_fnf"
    /\ out' = out \cup {"configuration_error", "config_hint"}
    /\ ReturnFromMain
    /\ UNCHANGED <<store, config, site, runs, args, session, page, pending,
                   stats, trail, response, shown, store0>>

\* except Exception: reported and re-raised.
ExceptException ==
    /\ pc = "except_exc"
    /\ out' = out \cup {"critical_error", "logs_hint"}
    /\ pc' = "top_exc"
    /\ UNCHANGED <<store, config, site, runs, args, session, page, pending,
                   stats, trail, response, shown, exitStatus, store0>>

\* __main__: except KeyboardInterrupt: "Goodbye!", sys.exit(0)
TopKeyboardInterrupt ==
    /\ pc = "top_ki"
    /\ out' = out \cup {"goodbye"}
    /\ pc' = "exited"
    /\ exitStatus' = "0"
    /\ UNCHANGED <<store, config, site, runs, args, session, page, pending,
                   stats, trail, response, shown, store0>>

\* __main__: except Exception: "Fatal error", sys.exit(1)
TopException ==
    /\ pc = "top_exc"
    /\ out' = out \cup {"fatal_error"}
    /\ pc' = "exited"
    /\ exitStatus' = "1"
    /\ UNCHANGED <<store, config, site, runs, args, session, page, pending,
                   stats, trail, response, shown, store0>>

\* The process is killed (crash, power loss) while the body of main runs:
\* nothing more runs; what the store persisted stays.
Crash ==
    /\ pc \in Interruptible \cup {"confirm"}
    /\ pc' = "exited"
    /\ exitStatus' = "killed"
    /\ pending' = <<>>
    /\ UNCHANGED <<store, config, site, runs, args, session, page, stats,
                   trail, response, out, shown, store0>>

\* The process is gone: only the persisted store is left for the next run.
ProcessGone ==
    /\ pc = "exited"
    /\ pc' = "idle"
    /\ args' = NoArgs
    /\ session' = "none"
    /\ page' = 0
    /\ pending' = <<>>
    /\ stats' = NoStats
    /\ trail' = NoTrail
    /\ response' = NoResponse
    /\ out' = {}
    /\ shown' = NoSummary
    /\ exitStatus' = "running"
    /\ store0' = store
    /\ UNCHANGED <<store, config, site, runs>>

ErrorKinds == {"fnf", "exc"}

Next ==
    \/ \E a \in Args : StartRun(a)
    \/ InitScraper
    \/ \E k \in ErrorKinds : InitScraperFails(k)
    \/ ShowSummary
    \/ \E k \in ErrorKinds : ShowSummaryFails(k)
    \/ ShowPlan
    \/ \E r \in Responses : Confirm(r)
    \/ ConfirmInterrupted
    \/ ConfirmFails
    \/ StartScraping
    \/ RangeDone
    \/ SkipPage
    \/ FetchPage
    \/ FetchTransientError
    \/ \E k \in ErrorKinds : FetchFatalError(k)
    \/ AppendPage
    \/ \E k \in ErrorKinds : AppendFails(k)
    \/ ShowResults
    \/ \E d \in {"main", "top"} : Interrupt(d)
    \/ \E ok \in BOOLEAN : ExceptKeyboardInterrupt(ok)
    \/ ExceptFileNotFound
    \/ ExceptException
    \/ TopKeyboardInterrupt
    \/ TopException
    \/ Crash
    \/ ProcessGone

Spec == Init /\ [][Next]_vars

(* ============================ properties =============================== *)
Exited == pc = "exited" /\ exitStatus \in {"0", "1"}

AppendedPages == {trail.appended[i].page : i \in 1..Len(trail.appended)}

\* Pages the orchestrator visited, the page whose empty result signalled
\* end-of-data not counted.
Visited ==
    (trail.fetched \cup trail.skipped)
        \ (IF trail.end_of_data THEN {page} ELSE {})

ResumableNotice == {"pages_saved", "use_resume"}

ErrorReports == {"configuration_error", "critical_error"}

\* The run met neither an exception nor a keyboard interrupt.
Undisturbed == trail.raised = "none" /\ trail.cancel = "none"

(* ------------------------------- C1 ------------------------------------ *)
\* C1: the --resume flag decides skipping: a page is skipped only in a run
\* started with --resume, and a page already recorded when the run started is
\* fetched only in a run started without --resume.
C1_ResumeFlagDecidesSkipping ==
    /\ trail.skipped # {} => args.resume
    /\ \A n \in trail.fetched : has_page(store0, n) => ~args.resume

C3_CancellationPrintsNotice ==
    (Exited /\ trail.cancel # "none")
        => (ResumableNotice \subseteq out /\ exitStatus = "0")

\* C3 amended: every run ended by a keyboard interrupt exits 0; the notice is
\* printed exactly when main's own handler caught the interrupt, not when it
\* was caught at the confirmation prompt or reached __main__.
C3_CancellationExitsZero ==
    (Exited /\ trail.cancel # "none") =>
        /\ exitStatus = "0"
        /\ (ResumableNotice \subseteq out) <=> (trail.cancel = "main")
        /\ trail.cancel = "prompt" => "cancelled_by_user" \in out
        /\ trail.cancel = "top" => "goodbye" \in out

C3_Witness ==
    /\ Exited /\ trail.cancel = "main" /\ trail.orch = "Cancelled"
    /\ trail.appended # <<>>
    /\ ResumableNotice \subseteq out /\ exitStatus = "0"

(* ------------------------------- C4 ------------------------------------ *)
\* C4: a run ended by a fatal condition other than user cancellation has
\* reported the cause and exits 1; exit status 0 comes only from normal
\* completion or user cancellation.
C4_FatalErrorsExitOne ==
    (Exited /\ trail.cancel = "none") =>
        /\ trail.raised # "none" =>
              (out \cap ErrorReports # {} /\ exitStatus = "1")
        /\ exitStatus = "0" => trail.raised = "none"

(* ------------------------------- C5 ------------------------------------ *)
\* C5: on every exit path of a run that acquired the scraper, the browser
\* session has been released when the process exits.
C5_SessionReleasedOnExit ==
    (Exited /\ session # "none") => session = "released"

C7_LiveSaveDurable ==
    /\ \A i \in 1..Len(trail.appended) :
          LET e == trail.appended[i]
          IN  /\ has_page(store, e.page)
              /\ store[e.page].cards = store0[e.page].cards \o e.cards
    /\ \A n \in DOMAIN store : n \notin AppendedPages => store[n] = store0[n]
    /\ Len(trail.appended) = stats.pages_scraped

C7_Witness ==
    /\ pc = "exited" /\ exitStatus = "killed"
    /\ AppendedPages = {1, 2} /\ store[1].cards = Batch(1, 5)
    /\ 3 \in trail.fetched /\ ~has_page(store, 3)
    /\ stats.errors = 0 /\ trail.skipped = {}

(* ------------------------------- C8 ------------------------------------ *)
\* C8 as stated: in every completed run pages_scraped + pages_skipped is the
\* number of pages visited.
C8_ScrapedPlusSkippedIsVisited ==
    trail.orch = "Completed" =>
        stats.pages_scraped + stats.pages_skipped = Cardinality(Visited)

\* C8 amended: in every completed run pages_scraped + pages_skipped + errors
\* is the number of pages visited (the page whose empty result signalled
\* end-of-data not counted).
C8_ScrapedSkippedErrorsIsVisited ==
    trail.orch = "Completed" =>
        stats.pages_scraped + stats.pages_skipped + stats.errors
            = Cardinality(Visited)

C8_Witness ==
    /\ trail.orch = "Completed"
    /\ stats.errors = 1 /\ stats.pages_skipped = 1 /\ stats.pages_scraped = 1
    /\ Cardinality(Visited) = 3

(* ------------------------------- C9 ------------------------------------ *)
\* C9: with an explicit end page an empty page does not end the run: a
\* completed run visited every page from the start page to the end page, in
\* ascending order, and counted every fetched page that gave no error, empty
\* or not, in pages_scraped; start 1, end 3 on the 5/0/4 site without skips
\* and errors gives pages_scraped 3 and cards_extracted 9; zero cards end a
\* run only when no end page was specified.
C9_ExplicitEndIgnoresEmptyPages ==
    /\ (trail.orch = "Completed" /\ args.end # None) =>
          /\ ~trail.end_of_data
          /\ trail.fetched \cup trail.skipped
                = StartPage(args, config)..args.end
          /\ stats.pages_scraped + stats.errors = Cardinality(trail.fetched)
          /\ stats.errors = 0 => AppendedPages = trail.fetched
    /\ \A n \in trail.fetched \cup trail.skipped : n <= page
    /\ (/\ trail.orch = "Completed"
        /\ args.start = 1 /\ args.end = 3
        /\ trail.skipped = {} /\ stats.errors = 0)
          => (stats.pages_scraped = 3 /\ stats.cards_extracted = 9)
    /\ trail.end_of_data => EndPage(args, config) = None

C9_Witness ==
    /\ trail.orch = "Completed" /\ args.start = 1 /\ args.end = 3
    /\ config.end_page = None
    /\ 2 \in AppendedPages /\ store[2].cards = <<>>
    /\ stats.pages_scraped = 3 /\ stats.cards_extracted = 9
    /\ stats.errors = 0

(* ------------------------------- C10 ----------------------------------- *)
\* The typed lines that are y or yes once trimmed and lower-cased.
YesAnswers == { <<"y">>, <<" ", "Y", "E", "S", " ">>, <<"y", "e", "s">> }

\* C10: without --summary and --resume scraping starts only after the prompt
\* was answered y or yes (trimmed, lower-cased); any other answer, or a
\* keyboard interrupt at the prompt, ends the run with nothing fetched and
\* the store unchanged; with --resume there is no prompt.
C10_ConfirmationGate ==
    /\ (~args.resume /\ pc = "start") => response \in YesAnswers
    /\ (~args.resume /\ trail.orch # "Idle") =>
          ("prompt" \in out /\ "cancelled_by_user" \notin out)
    /\ (response \notin YesAnswers \cup {NoResponse}
            \/ trail.cancel = "prompt") =>
          /\ pc = "exited" /\ exitStatus = "0"
          /\ "cancelled_by_user" \in out
          /\ trail.orch = "Idle" /\ trail.fetched = {} /\ store = store0
    /\ args.resume =>
          ("prompt" \notin out /\ pc # "confirm" /\ response = NoResponse)

C10_Witness ==
    /\ ~args.resume /\ ~args.summary
    /\ pc = "start" /\ response = <<" ", "Y", "E", "S", " ">>

====
